---- MODULE Spec2Model ----
(***************************************************************************)
(* A model of azure_openai_blaster: the per-endpoint health state          *)
(* (azure_endpoint_state.py), the weighted round-robin scheduler           *)
(* (scheduler/weighted.py), the request executor's classification          *)
(* (requesting.py) and the dispatcher's queue and worker pool (blaster.py).*)
(*                                                                         *)
(* Time is the integer reading of time.monotonic().  Every `with lock:`    *)
(* body of AzureEndpointState is one atomic step; WeightedRRScheduler.next *)
(* holds only the scheduler's lock, so each of its reads of an endpoint's  *)
(* fields is a step of its own and interleaves with the other threads.     *)
(***************************************************************************)
EXTENDS Integers, Sequences, FiniteSets, TLC

VARIABLES
    eps,        \* endpoint -> AzureEndpointState fields
    clock,      \* time.monotonic()
    endpoints,  \* the endpoints handed to the scheduler / dispatcher
    sched,      \* WeightedRRScheduler: _ring, _idx, _lock (holder)
    wk,         \* thread -> position and local variables
    queue,      \* AzureLLMBlaster._queue
    jobs,       \* job -> _Job fields (retry_count, future, ...)
    closed,     \* AzureLLMBlaster._closed
    stop,       \* AzureLLMBlaster._stop
    ops,        \* number of direct endpoint-method calls made so far
    lastCall,   \* history: the last endpoint-method call and what it saw
    picks,      \* history: endpoints returned by next(), in lock order
    recording,  \* which history is kept: "calls", "scans", "picks",
                \* "shutdown" or "none"
    max_job_retry,  \* AzureLLMBlaster._max_job_retry
    afterStop   \* history: thread -> jobs it took off the queue after _stop was set

vars == <<eps, clock, endpoints, sched, wk, queue, jobs, closed, stop,
          ops, lastCall, picks, recording, max_job_retry, afterStop>>

(***************************************************************************)
(* Bounds of the model.                                                    *)
(***************************************************************************)
Endpoints == {"e1", "e2"}
Workers == {"w1", "w2"}
MaxTime == 1
MaxOps == 5
MaxWeight == 3
MaxJobs == 2
MaxRetryCfg == 2

(***************************************************************************)
(* Program constants.                                                      *)
(***************************************************************************)
max_error_samples == 50
auto_disable_threshold == 5
base_cooldown == 1
default_retry_after == 15
default_max_job_retry == 5

None == "None"
ErrTypes == {"RateLimitError", "APITimeoutError"}

Max(a, b) == IF a >= b THEN a ELSE b
Min(a, b) == IF a <= b THEN a ELSE b

RECURSIVE Pow2(_)
Pow2(k) == IF k <= 0 THEN 1 ELSE 2 * Pow2(k - 1)

NoReason == [kind |-> None, streak |-> 0, err |-> None]
Reason(r) == [kind |-> r, streak |-> 0, err |-> None]

(***************************************************************************)
(* AzureEndpointState                                                      *)
(***************************************************************************)
NewEndpointState(w) ==
    [weight |-> w,
     cooldown_until |-> 0,
     disabled |-> FALSE,
     disabled_reason |-> NoReason,
     failure_streak |-> 0,
     last_error |-> None,
     total_requests |-> 0,
     total_rate_limits |-> 0,
     error_counts |-> [t \in ErrTypes |-> 0],
     error_samples |-> <<>>]

available(s, now) ==
    IF s.disabled THEN FALSE ELSE now >= s.cooldown_until

record_error(s, exc) ==
    [s EXCEPT !.last_error = exc,
              !.error_counts[exc] = @ + 1,
              !.error_samples =
                  IF Len(@) < max_error_samples THEN Append(@, exc) ELSE @,
              !.total_rate_limits =
                  IF exc = "RateLimitError" THEN @ + 1 ELSE @]

\* An auto-disable that waits for the streak to exceed the threshold.
maybe_auto_disable_late(s, exc) ==
    IF /\ ~s.disabled
       /\ auto_disable_threshold > 0
       /\ s.failure_streak > auto_disable_threshold
    THEN [s EXCEPT !.disabled = TRUE,
                   !.disabled_reason =
                       [kind |-> "auto", streak |-> s.failure_streak, err |-> exc]]
    ELSE s

maybe_auto_disable(s, exc) ==
    IF /\ ~s.disabled
       /\ auto_disable_threshold > 0
       /\ s.failure_streak >= auto_disable_threshold
    THEN [s EXCEPT !.disabled = TRUE,
                   !.disabled_reason =
                       [kind |-> "auto", streak |-> s.failure_streak, err |-> exc]]
    ELSE s

\* A set_cooldown that overwrites the cooldown whatever it was.
set_cooldown_overwrite(s, cooldown_until, exc) ==
    LET s1 == IF exc # None
              THEN maybe_auto_disable(record_error(s, exc), exc)
              ELSE s
    IN [s1 EXCEPT !.cooldown_until = cooldown_until]

\* Mutation of set_cooldown: a rate limit counts as a failure of the streak.
set_cooldown_penalizing(s, cooldown_until, exc) ==
    LET s1 == IF exc # None
              THEN maybe_auto_disable(
                       [record_error(s, exc) EXCEPT !.failure_streak = @ + 1], exc)
              ELSE s
    IN IF cooldown_until > s1.cooldown_until
       THEN [s1 EXCEPT !.cooldown_until = cooldown_until]
       ELSE s1

\* set_cooldown, lines 120-129.
set_cooldown(s, cooldown_until, exc) ==
    LET s1 == IF exc # None
              THEN maybe_auto_disable(record_error(s, exc), exc)
              ELSE s
    IN IF cooldown_until > s1.cooldown_until
       THEN [s1 EXCEPT !.cooldown_until = cooldown_until]
       ELSE s1

\* A note_success that puts the endpoint back in rotation.
note_success_reenable(s) ==
    [s EXCEPT !.failure_streak = 0,
              !.last_error = None,
              !.total_requests = @ + 1,
              !.disabled = FALSE]

note_success(s) ==
    [s EXCEPT !.failure_streak = 0,
              !.last_error = None,
              !.total_requests = @ + 1]

\* A backoff whose exponent is the streak itself.
BackoffFromStreak(base, streak) == base * Pow2(streak)

Backoff(base, streak) == base * Pow2(streak - 1)

note_transient_error(s, now, exc, base) ==
    LET s1 == record_error([s EXCEPT !.failure_streak = @ + 1], exc)
        new_until == now + Backoff(base, s1.failure_streak)
        s2 == IF new_until > s1.cooldown_until
              THEN [s1 EXCEPT !.cooldown_until = new_until]
              ELSE s1
    IN maybe_auto_disable(s2, exc)

\* Mutation of disable: the reason is recorded, the flag is not raised.
disable_reason_only(s, reason) ==
    [s EXCEPT !.disabled_reason = Reason(reason)]

\* disable, lines 162-166.
disable(s, reason) ==
    [s EXCEPT !.disabled = TRUE, !.disabled_reason = Reason(reason)]

(***************************************************************************)
(* Thread-local state.  pc is the thread's position; the other fields are  *)
(* the local variables of the frames it is in.                             *)
(***************************************************************************)
NewThread(start) ==
    [pc |-> start,
     job |-> 0,            \* the _Job the worker holds (0: none)
     ep |-> None,          \* next(): ep;  _handle_job: ep
     i |-> 0,              \* next(): ring positions scanned so far
     now |-> 0,            \* next() / note_transient_error: now
     found |-> FALSE,      \* next(): available_found
     soonest |-> -1,       \* next(): soonest (-1: None)
     wake |-> 0,           \* time.sleep(delay): the time it ends
     exc |-> None,         \* the exception being handled
     until |-> 0,          \* invoke_endpoint: cooldown_until
     res |-> None,         \* _handle_job: result (its classification)
     snapDisabled |-> {},  \* history: endpoints disabled when the scan began
     snapClass |-> None,   \* history: what the endpoints were when it began
     retStale |-> FALSE,   \* history: the endpoint returned was disabled then
     notBefore |-> 0]      \* history: the soonest expiry seen when all cooled down

NoCall == [op |-> None, e |-> None, arg |-> 0, now |-> 0, exc |-> None]

\* One locked method body of endpoint e runs: its fields become `new`.
Apply(e, op, arg, now, exc, new) ==
    /\ eps' = [eps EXCEPT ![e] = new]
    /\ lastCall' = IF recording = "calls"
                   THEN [op |-> op, e |-> e, arg |-> arg, now |-> now, exc |-> exc]
                   ELSE lastCall

Tick ==
    /\ clock < MaxTime
    /\ clock' = clock + 1
    /\ UNCHANGED <<eps, endpoints, sched, wk, queue, jobs, closed, stop,
                   ops, lastCall, picks, recording, max_job_retry, afterStop>>

(***************************************************************************)
(* Direct calls of the endpoint's methods by any thread, as the executor   *)
(* and the tests make them.                                                *)
(***************************************************************************)
CallSetCooldown(e, until, exc) ==
    /\ Apply(e, "set_cooldown", until, 0, exc, set_cooldown(eps[e], until, exc))
    /\ UNCHANGED <<clock, endpoints, sched, wk, queue, jobs, closed, stop,
                   picks, recording, max_job_retry, afterStop>>

CallNoteSuccess(e) ==
    /\ Apply(e, "note_success", 0, 0, None, note_success(eps[e]))
    /\ UNCHANGED <<clock, endpoints, sched, wk, queue, jobs, closed, stop,
                   picks, recording, max_job_retry, afterStop>>

\* note_transient_error, line 149: now = time.monotonic(), before the lock.
CallNoteTransientErrorBegin(w, e, exc) ==
    /\ wk[w].pc = "idle"
    /\ wk' = [wk EXCEPT ![w].pc = "nte_call", ![w].ep = e, ![w].now = clock,
                        ![w].exc = exc]
    /\ UNCHANGED <<eps, clock, endpoints, sched, queue, jobs, closed, stop,
                   lastCall, picks, recording, max_job_retry, afterStop>>

\* note_transient_error, lines 150-160: the locked body.
CallNoteTransientErrorBody(w) ==
    /\ wk[w].pc = "nte_call"
    /\ Apply(wk[w].ep, "note_transient_error", 0, wk[w].now, wk[w].exc,
             note_transient_error(eps[wk[w].ep], wk[w].now, wk[w].exc, base_cooldown))
    /\ wk' = [wk EXCEPT ![w].pc = "idle", ![w].ep = None, ![w].exc = None,
                        ![w].now = 0]
    /\ UNCHANGED <<clock, endpoints, sched, queue, jobs, closed, stop,
                   picks, recording, max_job_retry, afterStop>>

CallDisable(e, reason) ==
    /\ Apply(e, "disable", 0, 0, None, disable(eps[e], reason))
    /\ UNCHANGED <<clock, endpoints, sched, wk, queue, jobs, closed, stop,
                   picks, recording, max_job_retry, afterStop>>

\* Any method, on any endpoint, with any argument; the calls are counted.
EndpointCall ==
    /\ \/ /\ ops < MaxOps
          /\ \/ \E e \in endpoints, until \in 0..MaxTime, exc \in {None, "RateLimitError"} :
                    CallSetCooldown(e, until, exc)
             \/ \E e \in endpoints : CallNoteSuccess(e)
             \/ \E w \in DOMAIN wk, e \in endpoints :
                    CallNoteTransientErrorBegin(w, e, "APITimeoutError")
             \/ \E e \in endpoints : CallDisable(e, "auth error")
          /\ ops' = ops + 1
       \/ \E w \in DOMAIN wk : CallNoteTransientErrorBody(w) /\ ops' = ops

InitCommon ==
    /\ clock = 0
    /\ queue = <<>>
    /\ jobs = <<>>
    /\ closed = FALSE
    /\ stop = FALSE
    /\ ops = 0
    /\ lastCall = NoCall
    /\ picks = <<>>
    /\ afterStop = [w \in Workers |-> 0]

(***************************************************************************)
(* SpecEndpoint: the endpoint state machine under every sequence and       *)
(* interleaving of its methods.                                            *)
(***************************************************************************)
InitEndpoint ==
    /\ InitCommon
    /\ \E e \in Endpoints : endpoints = {e}
    /\ eps = [e \in Endpoints |-> NewEndpointState(1)]
    /\ sched = [ring |-> <<>>, idx |-> 0, lock |-> None]
    /\ wk = [w \in Workers |-> NewThread("idle")]
    /\ recording = "calls"
    /\ max_job_retry = default_max_job_retry

NextEndpoint == EndpointCall \/ Tick

SpecEndpoint == InitEndpoint /\ [][NextEndpoint]_vars

\* The times an endpoint is asked about: past every cooldown the model sets.
Horizon == 0..(MaxTime + Pow2(MaxOps + 1))

\* C4: for every endpoint, cooldown_until never decreases, whatever method
\* runs and in whatever order; and set_cooldown(t2) with t2 below the
\* cooldown already set leaves cooldown_until as it was.
C4_CooldownNeverDecreases ==
    [][\A e \in Endpoints :
          /\ eps'[e].cooldown_until >= eps[e].cooldown_until
          /\ (/\ ops' # ops
              /\ lastCall'.op = "set_cooldown"
              /\ lastCall'.e = e
              /\ lastCall'.arg < eps[e].cooldown_until)
             => eps'[e].cooldown_until = eps[e].cooldown_until]_vars

\* set_cooldown(t2) has just run on an endpoint whose cooldown was beyond t2.
C4_Witness ==
    /\ lastCall.op = "set_cooldown"
    /\ lastCall.arg < eps[lastCall.e].cooldown_until

\* C5: once disabled, an endpoint is disabled in every later state, whatever
\* is recorded on it and however much time passes, and available(now) is
\* false for every now.
C5_DisabledForever ==
    /\ [](\A e \in Endpoints :
             eps[e].disabled => \A now \in Horizon : ~available(eps[e], now))
    /\ [][\A e \in Endpoints : eps[e].disabled => eps'[e].disabled]_vars

\* A success has just been recorded on a disabled endpoint whose cooldown is over.
C5_Witness ==
    /\ lastCall.op = "note_success"
    /\ eps[lastCall.e].disabled
    /\ clock >= eps[lastCall.e].cooldown_until

BackoffWindows == <<1, 2, 4, 8, 16, 32, 64, 128>>

\* C7: the transient error that brings failure_streak to k sets
\* cooldown_until to max(previous cooldown_until, now + 2^(k-1)) with
\* base_cooldown = 1: windows of 1, 2, 4, 8 for streaks 1, 2, 3, 4.
C7_ExponentialBackoff ==
    [][\A e \in Endpoints :
          eps'[e].failure_streak = eps[e].failure_streak + 1
          => /\ lastCall'.op = "note_transient_error"
             /\ lastCall'.e = e
             /\ eps'[e].failure_streak \in DOMAIN BackoffWindows
             /\ eps'[e].cooldown_until =
                    Max(eps[e].cooldown_until,
                        lastCall'.now + BackoffWindows[eps'[e].failure_streak])]_vars

\* The fourth consecutive transient error has just set a window of 8.
C7_Witness ==
    /\ lastCall.op = "note_transient_error"
    /\ eps[lastCall.e].failure_streak = 4
    /\ eps[lastCall.e].cooldown_until = lastCall.now + 8

(***************************************************************************)
(* WeightedRRScheduler                                                     *)
(***************************************************************************)
Count(r, e) == Cardinality({k \in DOMAIN r : r[k] = e})

\* Mutation of Slots: the weight is ignored.
SlotsUnweighted(e) == 1

\* __init__, line 15: max(1, ep.cfg.weight) copies of the endpoint.
Slots(e) == Max(1, eps[e].weight)

RingLen(es) ==
    LET RECURSIVE Sum(_)
        Sum(S) == IF S = {} THEN 0
                  ELSE LET x == CHOOSE y \in S : TRUE IN Slots(x) + Sum(S \ {x})
    IN Sum(es)

\* __init__, lines 13-18: each endpoint max(1, weight) times, in any order
\* random.shuffle may leave them in.
Rings(es) ==
    {r \in [1..RingLen(es) -> es] : \A e \in es : Count(r, e) = Slots(e)}

\* The endpoints the last len(ring) calls of next() returned.
Window(p) ==
    IF Len(p) > Len(sched.ring) THEN Tail(p) ELSE p

AllDisabled == \A e \in endpoints : eps[e].disabled

\* The soonest cooldown_until among the enabled endpoints (0 when there is none).
SoonestEnabled ==
    LET en == {e \in endpoints : ~eps[e].disabled} IN
    IF en = {} THEN 0
    ELSE CHOOSE t \in {eps[e].cooldown_until : e \in en} :
             \A e \in en : t <= eps[e].cooldown_until

\* Some endpoint is enabled and every enabled endpoint is cooling down at `now`.
AllCoolingDown(now) ==
    /\ ~AllDisabled
    /\ \A e \in endpoints : ~eps[e].disabled => now < eps[e].cooldown_until

ClassAt(now) ==
    IF AllDisabled THEN "all_disabled"
    ELSE IF AllCoolingDown(now) THEN "all_cooling"
    ELSE "some_available"

\* The frame of next() is left: only what the caller and the histories need stays.
Leave(t, pc, ep) ==
    [NewThread(pc) EXCEPT !.job = t.job, !.ep = ep, !.snapClass = t.snapClass,
                          !.notBefore = t.notBefore]

\* next(), lines 27-31: take the lock, n = len(ring), now = time.monotonic().
NextAcquire(w) ==
    /\ wk[w].pc = "next"
    /\ sched.lock = None
    /\ sched' = [sched EXCEPT !.lock = w]
    /\ wk' = [wk EXCEPT ![w].pc = "scan", ![w].i = 0, ![w].now = clock,
                        ![w].found = FALSE, ![w].soonest = -1, ![w].ep = None,
                        ![w].snapDisabled = IF recording = "scans"
                                            THEN {e \in endpoints : eps[e].disabled}
                                            ELSE @,
                        ![w].snapClass = IF recording = "scans" THEN ClassAt(clock)
                                         ELSE @,
                        ![w].notBefore = IF recording = "scans" /\ AllCoolingDown(clock)
                                         THEN Max(@, SoonestEnabled) ELSE @]
    /\ UNCHANGED <<eps, clock, endpoints, queue, jobs, closed, stop,
                   ops, lastCall, picks, recording, max_job_retry, afterStop>>

\* Mutation of NextScan: a disabled endpoint is not skipped.
NextScanNoSkip(w) ==
    /\ wk[w].pc = "scan"
    /\ wk[w].i < Len(sched.ring)
    /\ LET ep == sched.ring[sched.idx + 1] IN
        /\ sched' = [sched EXCEPT !.idx = (sched.idx + 1) % Len(sched.ring)]
        /\ wk' = [wk EXCEPT ![w].i = @ + 1, ![w].ep = ep, ![w].pc = "avail_c"]
    /\ UNCHANGED <<eps, clock, endpoints, queue, jobs, closed, stop,
                   ops, lastCall, picks, recording, max_job_retry, afterStop>>

\* next(), lines 33-37: ep = ring[idx]; idx = (idx + 1) % n; skip if disabled.
NextScan(w) ==
    /\ wk[w].pc = "scan"
    /\ wk[w].i < Len(sched.ring)
    /\ LET ep == sched.ring[sched.idx + 1] IN
        /\ sched' = [sched EXCEPT !.idx = (sched.idx + 1) % Len(sched.ring)]
        /\ wk' = [wk EXCEPT ![w].i = @ + 1, ![w].ep = ep,
                            ![w].pc = IF eps[ep].disabled THEN "scan" ELSE "avail_d"]
    /\ UNCHANGED <<eps, clock, endpoints, queue, jobs, closed, stop,
                   ops, lastCall, picks, recording, max_job_retry, afterStop>>

\* available(), lines 53-54, called from line 38: the read of self.disabled.
NextAvailDisabled(w) ==
    /\ wk[w].pc = "avail_d"
    /\ wk' = [wk EXCEPT ![w].pc = IF eps[wk[w].ep].disabled THEN "unavail"
                                  ELSE "avail_c"]
    /\ UNCHANGED <<eps, clock, endpoints, sched, queue, jobs, closed, stop,
                   ops, lastCall, picks, recording, max_job_retry, afterStop>>

\* Mutation of NextAvailCooldown: a return puts the cursor back at the start
\* of the ring.
NextAvailCooldownRewind(w) ==
    /\ wk[w].pc = "avail_c"
    /\ IF wk[w].now >= eps[wk[w].ep].cooldown_until
       THEN /\ wk' = [wk EXCEPT ![w] =
                         [Leave(wk[w], "next_ret", wk[w].ep) EXCEPT
                             !.retStale = wk[w].ep \in wk[w].snapDisabled]]
            /\ sched' = [sched EXCEPT !.lock = None, !.idx = 0]
            /\ picks' = IF recording = "picks" THEN Window(Append(picks, wk[w].ep))
                        ELSE picks
       ELSE /\ wk' = [wk EXCEPT ![w].pc = "unavail"]
            /\ UNCHANGED <<sched, picks>>
    /\ UNCHANGED <<eps, clock, endpoints, queue, jobs, closed, stop,
                   ops, lastCall, recording, max_job_retry, afterStop>>

\* available(), line 57, and next(), line 39: return ep (the lock is released).
NextAvailCooldown(w) ==
    /\ wk[w].pc = "avail_c"
    /\ IF wk[w].now >= eps[wk[w].ep].cooldown_until
       THEN /\ wk' = [wk EXCEPT ![w] =
                         [Leave(wk[w], "next_ret", wk[w].ep) EXCEPT
                             !.retStale = wk[w].ep \in wk[w].snapDisabled]]
            /\ sched' = [sched EXCEPT !.lock = None]
            /\ picks' = IF recording = "picks" THEN Window(Append(picks, wk[w].ep))
                        ELSE picks
       ELSE /\ wk' = [wk EXCEPT ![w].pc = "unavail"]
            /\ UNCHANGED <<sched, picks>>
    /\ UNCHANGED <<eps, clock, endpoints, queue, jobs, closed, stop,
                   ops, lastCall, recording, max_job_retry, afterStop>>

\* next(), lines 41-42: available_found = True; the comparison with soonest.
NextUnavail(w) ==
    /\ wk[w].pc = "unavail"
    /\ wk' = [wk EXCEPT ![w].found = TRUE,
                        ![w].pc = IF \/ wk[w].soonest = -1
                                     \/ eps[wk[w].ep].cooldown_until < wk[w].soonest
                                  THEN "set_soonest" ELSE "scan"]
    /\ UNCHANGED <<eps, clock, endpoints, sched, queue, jobs, closed, stop,
                   ops, lastCall, picks, recording, max_job_retry, afterStop>>

\* next(), line 43: soonest = ep.cooldown_until (read again).
NextSetSoonest(w) ==
    /\ wk[w].pc = "set_soonest"
    /\ wk' = [wk EXCEPT ![w].soonest = eps[wk[w].ep].cooldown_until,
                        ![w].pc = "scan"]
    /\ UNCHANGED <<eps, clock, endpoints, sched, queue, jobs, closed, stop,
                   ops, lastCall, picks, recording, max_job_retry, afterStop>>

\* Mutation of Delay: the operands of the subtraction are swapped.
DelaySwapped(soonest, now) == Max(0, now - soonest)

\* next(), line 51: delay = max(0.0, soonest - now).
Delay(soonest, now) == Max(0, soonest - now)

\* Mutation of NextScanDone: a scan that returned nothing always raises.
NextScanDoneRaises(w) ==
    /\ wk[w].pc = "scan"
    /\ wk[w].i = Len(sched.ring)
    /\ sched' = [sched EXCEPT !.lock = None]
    /\ wk' = [wk EXCEPT ![w] =
                 [Leave(wk[w], "next_raise", None) EXCEPT !.exc = "RuntimeError"]]
    /\ UNCHANGED <<eps, clock, endpoints, queue, jobs, closed, stop,
                   ops, lastCall, picks, recording, max_job_retry, afterStop>>

\* next(), lines 45-54: the scan found nothing to return.
NextScanDone(w) ==
    /\ wk[w].pc = "scan"
    /\ wk[w].i = Len(sched.ring)
    /\ sched' = [sched EXCEPT !.lock = None]
    /\ IF ~wk[w].found \/ wk[w].soonest = -1
       THEN wk' = [wk EXCEPT ![w] =
                      [Leave(wk[w], "next_raise", None) EXCEPT !.exc = "RuntimeError"]]
       ELSE LET delay == Delay(wk[w].soonest, wk[w].now) IN
            wk' = [wk EXCEPT ![w] =
                      [Leave(wk[w], IF delay > 0 THEN "sleep" ELSE "next", None) EXCEPT
                          !.wake = clock + delay]]
    /\ UNCHANGED <<eps, clock, endpoints, queue, jobs, closed, stop,
                   ops, lastCall, picks, recording, max_job_retry, afterStop>>

\* time.sleep(delay) ends, and the while loop takes the lock again.
NextWake(w) ==
    /\ wk[w].pc = "sleep"
    /\ clock >= wk[w].wake
    /\ wk' = [wk EXCEPT ![w] = [NewThread("next") EXCEPT
                                    !.job = wk[w].job,
                                    !.notBefore = wk[w].notBefore]]
    /\ UNCHANGED <<eps, clock, endpoints, sched, queue, jobs, closed, stop,
                   ops, lastCall, picks, recording, max_job_retry, afterStop>>

SchedulerNext(w) ==
    \/ NextAcquire(w)
    \/ NextScan(w)
    \/ NextAvailDisabled(w)
    \/ NextAvailCooldown(w)
    \/ NextUnavail(w)
    \/ NextSetSoonest(w)
    \/ NextScanDone(w)
    \/ NextWake(w)

(***************************************************************************)
(* SpecSched: threads that call next() again and again while other threads *)
(* record outcomes on the endpoints.                                       *)
(***************************************************************************)
CallNext(w) ==
    /\ wk[w].pc = "idle"
    /\ wk' = [wk EXCEPT ![w].pc = "next"]
    /\ UNCHANGED <<eps, clock, endpoints, sched, queue, jobs, closed, stop,
                   ops, lastCall, picks, recording, max_job_retry, afterStop>>

\* The caller has the endpoint next() returned.
CallNextReturned(w) ==
    /\ wk[w].pc = "next_ret"
    /\ wk' = [wk EXCEPT ![w] = NewThread("idle")]
    /\ UNCHANGED <<eps, clock, endpoints, sched, queue, jobs, closed, stop,
                   ops, lastCall, picks, recording, max_job_retry, afterStop>>

\* The caller has the RuntimeError next() raised.
CallNextRaised(w) ==
    /\ wk[w].pc = "next_raise"
    /\ wk' = [wk EXCEPT ![w] = NewThread("idle")]
    /\ UNCHANGED <<eps, clock, endpoints, sched, queue, jobs, closed, stop,
                   ops, lastCall, picks, recording, max_job_retry, afterStop>>

RECURSIVE Times(_, _, _)
Times(n, s, exc) ==
    IF n = 0 THEN s
    ELSE Times(n - 1, note_transient_error(s, 0, exc, base_cooldown), exc)

\* The states an endpoint is handed to the scheduler in: new, or one timeout
\* short of the auto-disable threshold.
HandedOver(w) ==
    {NewEndpointState(w),
     Times(auto_disable_threshold - 1, NewEndpointState(w), "APITimeoutError")}

InitSched ==
    /\ InitCommon
    /\ endpoints = Endpoints
    /\ \E wt \in [Endpoints -> 1..2] :
           /\ wt["e1"] = 1
           /\ \E h \in HandedOver(wt["e1"]) :
                  eps = [e \in Endpoints |->
                            IF e = "e1" THEN h ELSE NewEndpointState(wt[e])]
    /\ \E r \in Rings(endpoints) : sched = [ring |-> r, idx |-> 0, lock |-> None]
    /\ wk = [w \in Workers |-> NewThread("idle")]
    /\ recording = "scans"
    /\ max_job_retry = default_max_job_retry

SchedCaller == "w1"

\* What the workers' executor calls do to the endpoints meanwhile.
SchedEnv ==
    /\ \/ \E e \in endpoints, until \in 1..MaxTime : CallSetCooldown(e, until, None)
       \/ \E w \in DOMAIN wk \ {SchedCaller}, e \in endpoints :
              /\ eps[e].failure_streak = auto_disable_threshold - 1
              /\ CallNoteTransientErrorBegin(w, e, "APITimeoutError")
       \/ \E w \in DOMAIN wk \ {SchedCaller} : CallNoteTransientErrorBody(w)
       \/ \E e \in endpoints : CallDisable(e, "auth error")
    /\ ops' = ops

NextSched ==
    \/ SchedulerNext(SchedCaller)
    \/ CallNext(SchedCaller)
    \/ CallNextReturned(SchedCaller)
    \/ CallNextRaised(SchedCaller)
    \/ SchedEnv
    \/ Tick

SpecSched == InitSched /\ [][NextSched]_vars

\* C1 as stated: at the step in which next() returns, the endpoint it hands
\* back has disabled = false, in every interleaving with workers that disable
\* endpoints.
C1_NotDisabledAtReturn ==
    [][\A w \in DOMAIN wk :
          wk[w].pc # "next_ret" /\ wk'[w].pc = "next_ret"
              => ~eps'[wk'[w].ep].disabled]_vars

\* C1, amended: next() never returns an endpoint that was already disabled when
\* the scan that returns it took the scheduler lock, whatever the workers do to
\* the endpoints meanwhile and whatever mix of disabled, cooling-down and
\* available endpoints the scan meets.
C1_NeverReturnsDisabledAtScan ==
    \A w \in DOMAIN wk : wk[w].pc = "next_ret" => ~wk[w].retStale

\* next() has returned an endpoint while another endpoint is disabled.
C1_Witness ==
    \E w \in DOMAIN wk :
        /\ wk[w].pc = "next_ret"
        /\ ~eps[wk[w].ep].disabled
        /\ \E e \in endpoints \ {wk[w].ep} : eps[e].disabled

\* C9: a scan that begins with some endpoint enabled and every enabled endpoint
\* cooling down returns no endpoint; next() returns only once the soonest
\* cooldown_until those endpoints had is reached; and after such a scan the
\* thread sleeps, until that time at least and strictly later than the present,
\* and scans again only when the sleep is over.
C9_WaitsForSoonestCooldown ==
    /\ [](\A w \in DOMAIN wk :
             /\ wk[w].pc = "next_ret" =>
                    /\ wk[w].snapClass # "all_cooling"
                    /\ clock >= wk[w].notBefore
             /\ wk[w].pc = "sleep" => wk[w].wake >= wk[w].notBefore)
    /\ [][\A w \in DOMAIN wk :
             /\ wk[w].pc = "scan" /\ wk[w].snapClass = "all_cooling"
                  /\ wk'[w].pc \notin {"scan", "avail_d", "next_raise"}
                  => /\ wk'[w].pc \in {"avail_c", "unavail", "set_soonest", "sleep"}
                     /\ wk'[w].pc = "sleep" => wk'[w].wake > clock
             /\ wk[w].pc = "sleep" /\ wk'[w].pc # "sleep"
                  => wk'[w].pc = "next" /\ clock >= wk[w].wake]_vars

\* next() has returned after waiting for a cooldown to expire.
C9_Witness ==
    \E w \in DOMAIN wk :
        /\ wk[w].pc = "next_ret"
        /\ wk[w].notBefore > 0
        /\ clock >= eps[wk[w].ep].cooldown_until

\* C10: next() raises only when every endpoint is disabled, and a scan that
\* begins with every endpoint disabled does nothing but raise: it inspects no
\* endpoint, returns none and does not sleep.
C10_RaisesIffAllDisabled ==
    \A w \in DOMAIN wk :
        /\ wk[w].pc = "next_raise" => AllDisabled /\ wk[w].exc = "RuntimeError"
        /\ wk[w].snapClass = "all_disabled" => wk[w].pc \in {"scan", "next_raise"}
        /\ wk[w].pc = "scan" /\ wk[w].i = Len(sched.ring) /\ ~AllDisabled
               => wk[w].found /\ wk[w].soonest # -1

\* next() has raised.
C10_Witness ==
    \E w \in DOMAIN wk : wk[w].pc = "next_raise" /\ wk[w].snapClass = "all_disabled"

(***************************************************************************)
(* SpecRotation: threads that call next() again and again on endpoints     *)
(* nobody else touches; the endpoints are handed over new, cooling down or *)
(* disabled, with any weights and any shuffle of the ring.                 *)
(***************************************************************************)
\* cfg.weight of each endpoint: any integer is accepted; below 1 counts as 1.
Weights(e) == IF e = "e1" THEN 0..1 ELSE 1..MaxWeight

Prepared(w) ==
    {NewEndpointState(w),
     set_cooldown(NewEndpointState(w), 1, None),
     disable(NewEndpointState(w), "auth error")}

InitRotation ==
    /\ InitCommon
    /\ endpoints = Endpoints
    /\ eps \in {f \in [Endpoints -> UNION {Prepared(w) : w \in 0..MaxWeight}] :
                   \A e \in Endpoints : f[e].weight \in Weights(e)}
    /\ \E r \in Rings(endpoints) : sched = [ring |-> r, idx |-> 0, lock |-> None]
    /\ wk = [w \in Workers |-> NewThread("idle")]
    /\ recording = "picks"
    /\ max_job_retry = default_max_job_retry

NextRotation ==
    \/ \E w \in DOMAIN wk : SchedulerNext(w)
    \/ \E w \in DOMAIN wk : CallNext(w)
    \/ \E w \in DOMAIN wk : CallNextReturned(w)
    \/ \E w \in DOMAIN wk : CallNextRaised(w)
    \/ Tick

SpecRotation == InitRotation /\ [][NextRotation]_vars

\* Every endpoint is enabled and has no cooldown: with nobody recording
\* outcomes it is available at every call.
AlwaysAvailable ==
    \A e \in endpoints : ~eps[e].disabled /\ eps[e].cooldown_until = 0

\* C8: when every endpoint is enabled and always available, the last
\* len(ring) calls of next(), wherever the cursor stood at the first of them
\* and however the ring was shuffled, returned each endpoint exactly
\* max(1, weight) times; with weights 1 and 3 that is once and three times.
C8_WeightedRotation ==
    AlwaysAvailable /\ Len(picks) = Len(sched.ring)
        => \A e \in endpoints : Count(picks, e) = Max(1, eps[e].weight)

\* Four consecutive calls that began at cursor 1 on endpoints of weights 1 and 3.
C8_Witness ==
    /\ AlwaysAvailable
    /\ eps["e1"].weight = 1 /\ eps["e2"].weight = 3
    /\ Len(picks) = 4 /\ Len(sched.ring) = 4
    /\ sched.idx = 1
    /\ Count(picks, "e2") = 3 * Count(picks, "e1")

(***************************************************************************)
(* AzureLLMBlaster: callers submit jobs and close the blaster, the worker  *)
(* threads run _worker_loop.                                               *)
(***************************************************************************)
\* _Job, lines 17-30, with its Future: state is "pending", "result",
\* "exception" or "cancelled", err the exception it was resolved with.
\* valid: is_chat_message_list(messages).  attempts is history: how many times
\* invoke_endpoint was called for the job.
NewJob(valid) ==
    [valid |-> valid, future |-> "pending", err |-> None, retry_count |-> 0,
     attempts |-> 0]

\* Future.done()
done(j) == jobs[j].future # "pending"

\* What the endpoint's client answers to a request: a completion, or one of
\* the exceptions of the openai package (InternalServerError: a 5xx status).
Outcomes ==
    {"ok", "RateLimitError", "AuthenticationError", "APITimeoutError",
     "BadRequestError", "InternalServerError"}

\* parse_retry_after_seconds(e): the seconds the provider names, or nothing (0).
RetryAfterHints == {0, 1}

\* RequestResult
Result(ok, retryable, error) == [ok |-> ok, retryable |-> retryable, error |-> error]

\* What the caller of submit_chat_completion got: the future of job `handle`
\* (0: none) or the exception `exc`.
Submitted(handle, exc) ==
    lastCall' = IF recording = "shutdown"
                THEN [op |-> "submit", e |-> None, arg |-> handle, now |-> 0,
                      exc |-> exc]
                ELSE lastCall

\* Mutation of Submit: _closed is not looked at.
SubmitWhenClosed ==
    /\ Len(jobs) < MaxJobs
    /\ \E valid \in BOOLEAN : jobs' = Append(jobs, NewJob(valid))
    /\ queue' = Append(queue, Len(jobs) + 1)
    /\ Submitted(Len(jobs) + 1, None)
    /\ UNCHANGED <<eps, clock, endpoints, sched, wk, closed, stop,
                   ops, picks, recording, max_job_retry, afterStop>>

\* submit_chat_completion, lines 180-188.
Submit ==
    /\ Len(jobs) < MaxJobs
    /\ IF closed
       THEN /\ Submitted(0, "RuntimeError")
            /\ UNCHANGED <<jobs, queue>>
       ELSE /\ \E valid \in BOOLEAN : jobs' = Append(jobs, NewJob(valid))
            /\ queue' = Append(queue, Len(jobs) + 1)
            /\ Submitted(Len(jobs) + 1, None)
    /\ UNCHANGED <<eps, clock, endpoints, sched, wk, closed, stop,
                   ops, picks, recording, max_job_retry, afterStop>>

\* Future.cancel() by the caller that holds the handle.
Cancel(j) ==
    /\ ~done(j)
    /\ jobs' = [jobs EXCEPT ![j].future = "cancelled"]
    /\ UNCHANGED <<eps, clock, endpoints, sched, wk, queue, closed, stop,
                   ops, lastCall, picks, recording, max_job_retry, afterStop>>

\* close, lines 227-230 (the joins of lines 232-234 change nothing).
Close ==
    /\ ~closed
    /\ closed' = TRUE
    /\ stop' = TRUE
    /\ UNCHANGED <<eps, clock, endpoints, sched, wk, queue, jobs,
                   ops, lastCall, picks, recording, max_job_retry, afterStop>>

\* Mutation of WorkerLoop: the stop event is not looked at.
WorkerLoopForever(w) ==
    /\ wk[w].pc = "loop"
    /\ wk' = [wk EXCEPT ![w].pc = "get"]
    /\ UNCHANGED <<eps, clock, endpoints, sched, queue, jobs, closed, stop,
                   ops, lastCall, picks, recording, max_job_retry, afterStop>>

\* _worker_loop, line 244: while not self._stop.is_set().
WorkerLoop(w) ==
    /\ wk[w].pc = "loop"
    /\ wk' = [wk EXCEPT ![w].pc = IF stop THEN "exited" ELSE "get"]
    /\ UNCHANGED <<eps, clock, endpoints, sched, queue, jobs, closed, stop,
                   ops, lastCall, picks, recording, max_job_retry, afterStop>>

\* Mutation of WorkerGet: the job is read off the queue and left on it.
WorkerGetPeek(w) ==
    /\ wk[w].pc = "get"
    /\ IF queue # <<>>
       THEN /\ wk' = [wk EXCEPT ![w].pc = "handle", ![w].job = Head(queue)]
            /\ afterStop' = IF recording = "shutdown" /\ stop
                            THEN [afterStop EXCEPT ![w] = @ + 1]
                            ELSE afterStop
       ELSE /\ wk' = [wk EXCEPT ![w].pc = "loop"]
            /\ UNCHANGED afterStop
    /\ UNCHANGED <<eps, clock, endpoints, sched, jobs, closed, stop, queue,
                   ops, lastCall, picks, recording, max_job_retry>>

\* Mutation of WorkerGet: the job put last is taken first.
WorkerGetLast(w) ==
    /\ wk[w].pc = "get"
    /\ IF queue # <<>>
       THEN /\ wk' = [wk EXCEPT ![w].pc = "handle", ![w].job = queue[Len(queue)]]
            /\ queue' = SubSeq(queue, 1, Len(queue) - 1)
            /\ afterStop' = IF recording = "shutdown" /\ stop
                            THEN [afterStop EXCEPT ![w] = @ + 1]
                            ELSE afterStop
       ELSE /\ wk' = [wk EXCEPT ![w].pc = "loop"]
            /\ UNCHANGED <<queue, afterStop>>
    /\ UNCHANGED <<eps, clock, endpoints, sched, jobs, closed, stop,
                   ops, lastCall, picks, recording, max_job_retry>>

\* _worker_loop, lines 245-249: queue.get(timeout=...), or Empty and continue.
WorkerGet(w) ==
    /\ wk[w].pc = "get"
    /\ IF queue # <<>>
       THEN /\ wk' = [wk EXCEPT ![w].pc = "handle", ![w].job = Head(queue)]
            /\ queue' = Tail(queue)
            /\ afterStop' = IF recording = "shutdown" /\ stop
                            THEN [afterStop EXCEPT ![w] = @ + 1]
                            ELSE afterStop
       ELSE /\ wk' = [wk EXCEPT ![w].pc = "loop"]
            /\ UNCHANGED <<queue, afterStop>>
    /\ UNCHANGED <<eps, clock, endpoints, sched, jobs, closed, stop,
                   ops, lastCall, picks, recording, max_job_retry>>

\* Mutation of HandleJobBegin: the future is not looked at.
HandleJobBeginAlways(w) ==
    /\ wk[w].pc = "handle"
    /\ wk' = [wk EXCEPT ![w].pc = "next"]
    /\ UNCHANGED <<eps, clock, endpoints, sched, queue, jobs, closed, stop,
                   ops, lastCall, picks, recording, max_job_retry, afterStop>>

\* _handle_job, lines 263-267: skip a job whose future is done, else call next().
HandleJobBegin(w) ==
    /\ wk[w].pc = "handle"
    /\ wk' = [wk EXCEPT ![w] = IF done(wk[w].job) THEN NewThread("loop")
                               ELSE [@ EXCEPT !.pc = "next"]]
    /\ UNCHANGED <<eps, clock, endpoints, sched, queue, jobs, closed, stop,
                   ops, lastCall, picks, recording, max_job_retry, afterStop>>

\* The RuntimeError of next() leaves _handle_job (line 267) and, after the
\* finally of lines 254-258, _worker_loop: nothing catches it, the thread ends.
HandleJobNextRaised(w) ==
    /\ wk[w].pc = "next_raise"
    /\ wk' = [wk EXCEPT ![w].pc = "dead"]
    /\ UNCHANGED <<eps, clock, endpoints, sched, queue, jobs, closed, stop,
                   ops, lastCall, picks, recording, max_job_retry, afterStop>>

\* Mutation of Invoke: a BadRequestError is recorded against the endpoint.
InvokePenalizing(w, outcome, hint) ==
    /\ wk[w].pc = "next_ret"
    /\ jobs' = [jobs EXCEPT ![wk[w].job].attempts = @ + 1]
    /\ LET ep == wk[w].ep IN
       IF ~jobs[wk[w].job].valid
       THEN \* lines 33-34: ValueError, which nothing catches: the thread ends
            /\ wk' = [wk EXCEPT ![w] = [NewThread("dead") EXCEPT
                                            !.job = wk[w].job, !.exc = "ValueError"]]
            /\ UNCHANGED <<eps, lastCall>>
       ELSE
       CASE outcome = "ok" ->
              /\ Apply(ep, "note_success", 0, 0, None, note_success(eps[ep]))
              /\ wk' = [wk EXCEPT ![w].pc = "result",
                                  ![w].res = Result(TRUE, FALSE, None)]
         [] outcome = "RateLimitError" ->
              /\ wk' = [wk EXCEPT ![w].pc = "rl_set", ![w].exc = outcome,
                                  ![w].until = clock + (IF hint = 0
                                                        THEN default_retry_after
                                                        ELSE hint)]
              /\ UNCHANGED <<eps, lastCall>>
         [] outcome = "AuthenticationError" ->
              /\ Apply(ep, "disable", 0, 0, None, disable(eps[ep], "auth error"))
              /\ wk' = [wk EXCEPT ![w].pc = "result",
                                  ![w].res = Result(FALSE, FALSE, outcome)]
         [] outcome = "APITimeoutError" ->
              /\ wk' = [wk EXCEPT ![w].pc = "to_call", ![w].exc = outcome,
                                  ![w].now = clock]
              /\ UNCHANGED <<eps, lastCall>>
         [] outcome = "BadRequestError" ->
              /\ Apply(ep, "note_transient_error", 0, clock, outcome,
                       note_transient_error(eps[ep], clock, outcome, base_cooldown))
              /\ wk' = [wk EXCEPT ![w].pc = "result",
                                  ![w].res = Result(FALSE, FALSE, outcome)]
         [] OTHER ->
              \* no except clause matches: the exception leaves invoke_endpoint,
              \* _handle_job and _worker_loop, and the thread ends
              /\ wk' = [wk EXCEPT ![w] = [NewThread("dead") EXCEPT
                                              !.job = wk[w].job, !.exc = outcome]]
              /\ UNCHANGED <<eps, lastCall>>
    /\ UNCHANGED <<clock, endpoints, sched, queue, closed, stop,
                   ops, picks, recording, max_job_retry, afterStop>>

\* invoke_endpoint, lines 33-85, up to the first access to shared state after
\* the client has answered; `hint` is what parse_retry_after_seconds finds.
Invoke(w, outcome, hint) ==
    /\ wk[w].pc = "next_ret"
    /\ jobs' = [jobs EXCEPT ![wk[w].job].attempts = @ + 1]
    /\ LET ep == wk[w].ep IN
       IF ~jobs[wk[w].job].valid
       THEN \* lines 33-34: ValueError, which nothing catches: the thread ends
            /\ wk' = [wk EXCEPT ![w] = [NewThread("dead") EXCEPT
                                            !.job = wk[w].job, !.exc = "ValueError"]]
            /\ UNCHANGED <<eps, lastCall>>
       ELSE
       CASE outcome = "ok" ->
              /\ Apply(ep, "note_success", 0, 0, None, note_success(eps[ep]))
              /\ wk' = [wk EXCEPT ![w].pc = "result",
                                  ![w].res = Result(TRUE, FALSE, None)]
         [] outcome = "RateLimitError" ->
              /\ wk' = [wk EXCEPT ![w].pc = "rl_set", ![w].exc = outcome,
                                  ![w].until = clock + (IF hint = 0
                                                        THEN default_retry_after
                                                        ELSE hint)]
              /\ UNCHANGED <<eps, lastCall>>
         [] outcome = "AuthenticationError" ->
              /\ Apply(ep, "disable", 0, 0, None, disable(eps[ep], "auth error"))
              /\ wk' = [wk EXCEPT ![w].pc = "result",
                                  ![w].res = Result(FALSE, FALSE, outcome)]
         [] outcome = "APITimeoutError" ->
              /\ wk' = [wk EXCEPT ![w].pc = "to_call", ![w].exc = outcome,
                                  ![w].now = clock]
              /\ UNCHANGED <<eps, lastCall>>
         [] outcome = "BadRequestError" ->
              /\ wk' = [wk EXCEPT ![w].pc = "result",
                                  ![w].res = Result(FALSE, FALSE, outcome)]
              /\ UNCHANGED <<eps, lastCall>>
         [] OTHER ->
              \* no except clause matches: the exception leaves invoke_endpoint,
              \* _handle_job and _worker_loop, and the thread ends
              /\ wk' = [wk EXCEPT ![w] = [NewThread("dead") EXCEPT
                                              !.job = wk[w].job, !.exc = outcome]]
              /\ UNCHANGED <<eps, lastCall>>
    /\ UNCHANGED <<clock, endpoints, sched, queue, closed, stop,
                   ops, picks, recording, max_job_retry, afterStop>>

\* Mutation of InvokeRateLimitSet: the rate limit is classified as fatal.
InvokeRateLimitSetFatal(w) ==
    /\ wk[w].pc = "rl_set"
    /\ Apply(wk[w].ep, "set_cooldown", wk[w].until, 0, wk[w].exc,
             set_cooldown(eps[wk[w].ep], wk[w].until, wk[w].exc))
    /\ wk' = [wk EXCEPT ![w].pc = "result",
                        ![w].res = Result(FALSE, FALSE, wk[w].exc),
                        ![w].exc = None, ![w].until = 0]
    /\ UNCHANGED <<clock, endpoints, sched, queue, jobs, closed, stop,
                   ops, picks, recording, max_job_retry, afterStop>>

\* invoke_endpoint, lines 62-63: ep.set_cooldown(cooldown_until, exc=e).
InvokeRateLimitSet(w) ==
    /\ wk[w].pc = "rl_set"
    /\ Apply(wk[w].ep, "set_cooldown", wk[w].until, 0, wk[w].exc,
             set_cooldown(eps[wk[w].ep], wk[w].until, wk[w].exc))
    /\ wk' = [wk EXCEPT ![w].pc = "result",
                        ![w].res = Result(FALSE, TRUE, wk[w].exc),
                        ![w].exc = None, ![w].until = 0]
    /\ UNCHANGED <<clock, endpoints, sched, queue, jobs, closed, stop,
                   ops, picks, recording, max_job_retry, afterStop>>

\* invoke_endpoint, lines 73-77: the locked body of note_transient_error.
InvokeTimeoutNote(w) ==
    /\ wk[w].pc = "to_call"
    /\ Apply(wk[w].ep, "note_transient_error", 0, wk[w].now, wk[w].exc,
             note_transient_error(eps[wk[w].ep], wk[w].now, wk[w].exc, base_cooldown))
    /\ wk' = [wk EXCEPT ![w].pc = "result",
                        ![w].res = Result(FALSE, TRUE, wk[w].exc),
                        ![w].exc = None, ![w].now = 0]
    /\ UNCHANGED <<clock, endpoints, sched, queue, jobs, closed, stop,
                   ops, picks, recording, max_job_retry, afterStop>>

\* The thread goes on with future.done() and then sets `exc` (None: the result).
ToResolve(w, exc) ==
    [NewThread("chk_done") EXCEPT !.job = wk[w].job, !.exc = exc]

\* Mutation of HandleJobResult: there is no budget, a retryable failure is
\* always requeued.
HandleJobResultUnbounded(w) ==
    /\ wk[w].pc = "result"
    /\ LET r == wk[w].res
           j == wk[w].job
           rc == jobs[j].retry_count + 1
       IN
       IF r.ok
       THEN /\ wk' = [wk EXCEPT ![w] = ToResolve(w, None)]
            /\ UNCHANGED <<jobs, queue>>
       ELSE /\ jobs' = [jobs EXCEPT ![j].retry_count = rc]
            /\ IF r.retryable
               THEN /\ queue' = Append(queue, j)
                    /\ wk' = [wk EXCEPT ![w] = NewThread("loop")]
               ELSE /\ wk' = [wk EXCEPT ![w] =
                                ToResolve(w, IF r.error # None THEN r.error
                                             ELSE "RuntimeError")]
                    /\ UNCHANGED queue
    /\ UNCHANGED <<eps, clock, endpoints, sched, closed, stop,
                   ops, lastCall, picks, recording, max_job_retry, afterStop>>

\* Mutation of HandleJobResult: the budget is tested with > instead of >=.
HandleJobResultLate(w) ==
    /\ wk[w].pc = "result"
    /\ LET r == wk[w].res
           j == wk[w].job
           rc == jobs[j].retry_count + 1
       IN
       IF r.ok
       THEN /\ wk' = [wk EXCEPT ![w] = ToResolve(w, None)]
            /\ UNCHANGED <<jobs, queue>>
       ELSE /\ jobs' = [jobs EXCEPT ![j].retry_count = rc]
            /\ IF rc > max_job_retry
               THEN /\ wk' = [wk EXCEPT ![w] =
                                ToResolve(w, IF r.error # None THEN r.error
                                             ELSE "TimeoutError")]
                    /\ UNCHANGED queue
               ELSE IF r.retryable
               THEN /\ queue' = Append(queue, j)
                    /\ wk' = [wk EXCEPT ![w] = NewThread("loop")]
               ELSE /\ wk' = [wk EXCEPT ![w] =
                                ToResolve(w, IF r.error # None THEN r.error
                                             ELSE "RuntimeError")]
                    /\ UNCHANGED queue
    /\ UNCHANGED <<eps, clock, endpoints, sched, closed, stop,
                   ops, lastCall, picks, recording, max_job_retry, afterStop>>

\* _handle_job, lines 271-303, up to the test of future.done().
HandleJobResult(w) ==
    /\ wk[w].pc = "result"
    /\ LET r == wk[w].res
           j == wk[w].job
           rc == jobs[j].retry_count + 1
       IN
       IF r.ok
       THEN /\ wk' = [wk EXCEPT ![w] = ToResolve(w, None)]
            /\ UNCHANGED <<jobs, queue>>
       ELSE /\ jobs' = [jobs EXCEPT ![j].retry_count = rc]
            /\ IF rc >= max_job_retry
               THEN /\ wk' = [wk EXCEPT ![w] =
                                ToResolve(w, IF r.error # None THEN r.error
                                             ELSE "TimeoutError")]
                    /\ UNCHANGED queue
               ELSE IF r.retryable
               THEN /\ queue' = Append(queue, j)
                    /\ wk' = [wk EXCEPT ![w] = NewThread("loop")]
               ELSE /\ wk' = [wk EXCEPT ![w] =
                                ToResolve(w, IF r.error # None THEN r.error
                                             ELSE "RuntimeError")]
                    /\ UNCHANGED queue
    /\ UNCHANGED <<eps, clock, endpoints, sched, closed, stop,
                   ops, lastCall, picks, recording, max_job_retry, afterStop>>

\* _handle_job, lines 272, 280 and 297: if not job.future.done().
HandleJobCheckDone(w) ==
    /\ wk[w].pc = "chk_done"
    /\ wk' = [wk EXCEPT ![w] = IF done(wk[w].job) THEN NewThread("loop")
                               ELSE [@ EXCEPT !.pc = "set_future"]]
    /\ UNCHANGED <<eps, clock, endpoints, sched, queue, jobs, closed, stop,
                   ops, lastCall, picks, recording, max_job_retry, afterStop>>

\* _handle_job, lines 274, 282-288 and 299-303: set_result / set_exception,
\* which raise InvalidStateError on a future that is no longer pending.
HandleJobSetFuture(w) ==
    /\ wk[w].pc = "set_future"
    /\ LET j == wk[w].job IN
       IF ~done(j)
       THEN /\ jobs' = [jobs EXCEPT
                          ![j].future = IF wk[w].exc = None THEN "result"
                                        ELSE "exception",
                          ![j].err = wk[w].exc]
            /\ wk' = [wk EXCEPT ![w] = NewThread("loop")]
       ELSE /\ wk' = [wk EXCEPT ![w] = [NewThread("dead") EXCEPT
                                            !.job = j, !.exc = "InvalidStateError"]]
            /\ UNCHANGED jobs
    /\ UNCHANGED <<eps, clock, endpoints, sched, queue, closed, stop,
                   ops, lastCall, picks, recording, max_job_retry, afterStop>>

\* __init__, lines 66-89: at least one endpoint, the scheduler over them, an
\* empty queue, and the worker threads started.
Init ==
    /\ InitCommon
    /\ endpoints = {"e1"}
    /\ eps = [e \in Endpoints |-> NewEndpointState(1)]
    /\ \E r \in Rings(endpoints) : sched = [ring |-> r, idx |-> 0, lock |-> None]
    /\ wk = [w \in Workers |-> NewThread("loop")]
    /\ recording = "none"
    /\ max_job_retry \in 0..MaxRetryCfg

Next ==
    \/ Submit
    \/ \E j \in DOMAIN jobs : Cancel(j)
    \/ Close
    \/ \E w \in DOMAIN wk : WorkerLoop(w)
    \/ \E w \in DOMAIN wk : WorkerGet(w)
    \/ \E w \in DOMAIN wk : HandleJobBegin(w)
    \/ \E w \in DOMAIN wk : SchedulerNext(w)
    \/ \E w \in DOMAIN wk : HandleJobNextRaised(w)
    \/ \E w \in DOMAIN wk, o \in Outcomes :
           \E h \in IF o = "RateLimitError" THEN RetryAfterHints ELSE {0} :
               Invoke(w, o, h)
    \/ \E w \in DOMAIN wk : InvokeRateLimitSet(w)
    \/ \E w \in DOMAIN wk : InvokeTimeoutNote(w)
    \/ \E w \in DOMAIN wk : HandleJobResult(w)
    \/ \E w \in DOMAIN wk : HandleJobCheckDone(w)
    \/ \E w \in DOMAIN wk : HandleJobSetFuture(w)
    \/ Tick

Spec == Init /\ [][Next]_vars

\* The job is on the queue.
Queued(j) == \E k \in DOMAIN queue : queue[k] = j

\* C2 as stated: with every endpoint disabled and the blaster not closed, the
\* job for which next() raised its RuntimeError has its future resolved with
\* that error by the time the worker is through with it.
C2_SchedulingErrorSurfaced ==
    \A w \in DOMAIN wk :
        /\ wk[w].pc = "dead"
        /\ wk[w].exc = "RuntimeError"
        /\ AllDisabled
        /\ ~closed
        => /\ jobs[wk[w].job].future = "exception"
           /\ jobs[wk[w].job].err = "RuntimeError"

\* The job's retry_count has been incremented up to max_job_retry.
Exhausted(j) ==
    jobs[j].retry_count >= 1 /\ jobs[j].retry_count >= max_job_retry

\* The errors a RequestResult carries.
CarriedErrors ==
    {"RateLimitError", "AuthenticationError", "APITimeoutError", "BadRequestError"}

\* C3: a job whose retry_count has reached max_job_retry is not on the queue
\* and invoke_endpoint is not called for it again; its future holds the error
\* the last result carried, or the worker that counted the last failure is
\* about to set it, unless the caller has cancelled the future meanwhile; and
\* for max_job_retry >= 1 invoke_endpoint is called at most max_job_retry
\* times for any one job.
C3_RetryBudget ==
    /\ [](\A j \in DOMAIN jobs :
             /\ max_job_retry >= 1 => jobs[j].attempts <= max_job_retry
             /\ jobs[j].future = "exception" => jobs[j].err \in CarriedErrors
             /\ Exhausted(j) =>
                   /\ ~Queued(j)
                   /\ jobs[j].future # "result"
                   /\ \/ jobs[j].future \in {"exception", "cancelled"}
                      \/ \E w \in DOMAIN wk :
                            /\ wk[w].job = j
                            /\ wk[w].pc \in {"chk_done", "set_future"}
                            /\ wk[w].exc \in CarriedErrors)
    /\ [][\A j \in DOMAIN jobs :
             Exhausted(j) => /\ jobs'[j].attempts = jobs[j].attempts
                             /\ jobs'[j].retry_count = jobs[j].retry_count
                             /\ ~Queued(j)']_vars

\* A job was requeued once and then resolved with the error of its second
\* failure, with max_job_retry = 2.
C3_Witness ==
    /\ max_job_retry = 2
    /\ \E j \in DOMAIN jobs :
          /\ jobs[j].retry_count = 2
          /\ jobs[j].attempts = 2
          /\ jobs[j].future = "exception"
          /\ jobs[j].err \in CarriedErrors

\* A thread has the job in its hands.
Held(j) == \E w \in DOMAIN wk : wk[w].job = j

\* C11: a worker that has dequeued a job whose future is already done
\* (resolved or cancelled) drops it: its one step with the job returns it to
\* the top of its loop without the job, and leaves the scheduler (ring, cursor,
\* lock), every endpoint, the queue and the jobs (attempts included) as they
\* were.
C11_DoneJobDropped ==
    [][\A w \in DOMAIN wk :
          wk[w].pc = "handle" /\ done(wk[w].job) /\ wk'[w] # wk[w]
          => /\ wk'[w].pc = "loop"
             /\ wk'[w].job = 0
             /\ sched' = sched
             /\ eps' = eps
             /\ queue' = queue
             /\ jobs' = jobs]_vars

\* A cancelled job was dequeued and dropped: it is neither queued nor held,
\* and invoke_endpoint was never called for it.
C11_Witness ==
    \E j \in DOMAIN jobs :
        /\ jobs[j].future = "cancelled"
        /\ jobs[j].attempts = 0
        /\ ~Queued(j)
        /\ ~Held(j)

(***************************************************************************)
(* SpecRateLimit: two endpoints of weight 1 and one job; the client        *)
(* answers the first two requests it gets on "e1", or on either endpoint,  *)
(* with a rate limit, and every other request with a completion.           *)
(***************************************************************************)
\* Time passes while a thread sleeps in next(), however late it is.
TickAsleep ==
    /\ \E w \in DOMAIN wk : wk[w].pc = "sleep" /\ wk[w].wake > clock
    /\ clock' = clock + 1
    /\ UNCHANGED <<eps, endpoints, sched, wk, queue, jobs, closed, stop,
                   ops, lastCall, picks, recording, max_job_retry, afterStop>>

\* The rate limits the client has answered with so far.
RateLimitsSoFar ==
    LET RECURSIVE Sum(_)
        Sum(S) == IF S = {} THEN 0
                  ELSE LET x == CHOOSE y \in S : TRUE
                       IN eps[x].total_rate_limits + Sum(S \ {x})
    IN Sum(endpoints)

\* What the client may answer to a request to endpoint e.
RateLimitAnswers(e) ==
    (IF RateLimitsSoFar < 2 THEN {"RateLimitError"} ELSE {"ok"})
        \cup (IF e = "e2" THEN {"ok"} ELSE {})

\* Any step of worker w in the scenario.
RateLimitWorker(w) ==
    \/ WorkerLoop(w)
    \/ WorkerGet(w)
    \/ HandleJobBegin(w)
    \/ SchedulerNext(w)
    \/ \E o \in RateLimitAnswers(wk[w].ep), h \in RetryAfterHints : Invoke(w, o, h)
    \/ InvokeRateLimitSet(w)
    \/ HandleJobResult(w)
    \/ HandleJobCheckDone(w)
    \/ HandleJobSetFuture(w)

InitRateLimit ==
    /\ InitCommon
    /\ endpoints = Endpoints
    /\ eps = [e \in Endpoints |-> NewEndpointState(1)]
    /\ \E r \in Rings(endpoints) : sched = [ring |-> r, idx |-> 0, lock |-> None]
    /\ wk = [w \in Workers |-> NewThread("loop")]
    /\ recording = "none"
    /\ max_job_retry = default_max_job_retry

NextRateLimit ==
    \/ Len(jobs) = 0 /\ Submit /\ jobs'[1].valid
    \/ \E w \in DOMAIN wk : RateLimitWorker(w)
    \/ Tick
    \/ TickAsleep

\* The threads are scheduled and time passes: each worker thread that can
\* take a step eventually takes one, and so does the clock.
SpecRateLimit ==
    /\ InitRateLimit
    /\ [][NextRateLimit]_vars
    /\ \A w \in Workers : WF_vars(RateLimitWorker(w))
    /\ WF_vars(Tick \/ TickAsleep)

\* C12: in the rate-limit scenario the job's future is never set to an
\* exception and, once the job is submitted, is eventually set to the
\* completion; when it is, the endpoint that answered with it has
\* failure_streak = 0 and total_requests = 1, and the other endpoint has
\* total_requests = 0.
C12_RateLimitScenario ==
    /\ [](\A j \in DOMAIN jobs :
             /\ jobs[j].future # "exception"
             /\ jobs[j].future = "result"
                => \E e \in endpoints :
                      /\ eps[e].failure_streak = 0
                      /\ eps[e].total_requests = 1
                      /\ \A f \in endpoints \ {e} : eps[f].total_requests = 0)
    /\ (Len(jobs) = 1) ~> (\E j \in DOMAIN jobs : jobs[j].future = "result")

\* The job got its completion on its third attempt, after two rate limits.
C12_Witness ==
    /\ Len(jobs) = 1
    /\ jobs[1].future = "result"
    /\ jobs[1].attempts = 3
    /\ jobs[1].retry_count = 2
    /\ RateLimitsSoFar = 2

(***************************************************************************)
(* SpecAuth: one endpoint whose client refuses every request with an       *)
(* AuthenticationError, and one job.                                       *)
(***************************************************************************)
\* Any step of worker w in the scenario.
AuthWorker(w) ==
    \/ WorkerLoop(w)
    \/ WorkerGet(w)
    \/ HandleJobBegin(w)
    \/ SchedulerNext(w)
    \/ Invoke(w, "AuthenticationError", 0)
    \/ HandleJobResult(w)
    \/ HandleJobCheckDone(w)
    \/ HandleJobSetFuture(w)

InitAuth ==
    /\ InitCommon
    /\ endpoints = {"e1"}
    /\ \E wt \in 1..MaxWeight :
          eps = [e \in Endpoints |-> NewEndpointState(IF e = "e1" THEN wt ELSE 1)]
    /\ \E r \in Rings(endpoints) : sched = [ring |-> r, idx |-> 0, lock |-> None]
    /\ wk = [w \in Workers |-> NewThread("loop")]
    /\ recording = "none"
    /\ max_job_retry \in (0..MaxRetryCfg) \cup {default_max_job_retry}

NextAuth ==
    \/ Len(jobs) = 0 /\ Submit /\ jobs'[1].valid
    \/ \E w \in DOMAIN wk : AuthWorker(w)
    \/ Tick

\* The worker threads are scheduled: each one that can take a step
\* eventually takes one.
SpecAuth ==
    /\ InitAuth
    /\ [][NextAuth]_vars
    /\ \A w \in Workers : WF_vars(AuthWorker(w))

\* C13: in the authentication scenario the endpoint is asked at most once for
\* the job, the job never goes back on the queue after that request and never
\* gets a result; once submitted, its future is eventually set to the
\* AuthenticationError, by which time the endpoint is disabled; and a
\* disabled endpoint stays disabled.
C13_AuthScenario ==
    /\ [](\A j \in DOMAIN jobs :
             /\ jobs[j].attempts <= 1
             /\ jobs[j].attempts = 1 => ~Queued(j)
             /\ jobs[j].future # "result"
             /\ jobs[j].future = "exception"
                => /\ jobs[j].err = "AuthenticationError"
                   /\ jobs[j].attempts = 1
                   /\ \A e \in endpoints : eps[e].disabled)
    /\ [][\A e \in endpoints : eps[e].disabled => eps'[e].disabled]_vars
    /\ (Len(jobs) = 1) ~> (\E j \in DOMAIN jobs : jobs[j].future = "exception")

\* The job's future carries the AuthenticationError and the workers are back
\* in their loops.
C13_Witness ==
    /\ Len(jobs) = 1
    /\ jobs[1].future = "exception"
    /\ jobs[1].err = "AuthenticationError"
    /\ eps["e1"].disabled
    /\ \A w \in DOMAIN wk : wk[w].job = 0

(***************************************************************************)
(* SpecShutdown: the dispatcher with callers that submit and close, the    *)
(* client answering with completions and rate limits; what each submit     *)
(* gave its caller and what each thread dequeued after the stop signal are *)
(* recorded.                                                               *)
(***************************************************************************)
\* What the client answers in this specification.
ShutdownOutcomes == {"ok", "RateLimitError"}

\* The Retry-After its rate limits carry, in seconds.
ShutdownRetryAfter == 1

\* Any step of worker w.
ShutdownWorker(w) ==
    \/ WorkerLoop(w)
    \/ WorkerGet(w)
    \/ HandleJobBegin(w)
    \/ SchedulerNext(w)
    \/ \E o \in ShutdownOutcomes : Invoke(w, o, ShutdownRetryAfter)
    \/ InvokeRateLimitSet(w)
    \/ HandleJobResult(w)
    \/ HandleJobCheckDone(w)
    \/ HandleJobSetFuture(w)

InitShutdown ==
    /\ InitCommon
    /\ endpoints = {"e1"}
    /\ eps = [e \in Endpoints |-> NewEndpointState(1)]
    /\ \E r \in Rings(endpoints) : sched = [ring |-> r, idx |-> 0, lock |-> None]
    /\ wk = [w \in Workers |-> NewThread("loop")]
    /\ recording = "shutdown"
    /\ max_job_retry \in 1..MaxRetryCfg

NextShutdown ==
    \/ Submit
    \/ Close
    \/ \E w \in DOMAIN wk : ShutdownWorker(w)
    \/ Tick
    \/ TickAsleep

\* The client's calls return, the worker threads are scheduled and time
\* passes.
SpecShutdown ==
    /\ InitShutdown
    /\ [][NextShutdown]_vars
    /\ \A w \in Workers : WF_vars(ShutdownWorker(w))
    /\ WF_vars(Tick \/ TickAsleep)

\* A submit call has returned to its caller in this step.
SubmitReturned == lastCall' # lastCall /\ lastCall'.op = "submit"

\* C14: a submit_chat_completion that starts once _closed is set raises
\* RuntimeError, gives its caller no future and leaves the jobs and the queue
\* as they were; one that starts before gives its caller the future of the
\* job it has put on the queue; and a submit is never made to wait.
C14_SubmitAfterClose ==
    /\ [][SubmitReturned
          => IF closed
             THEN /\ lastCall'.exc = "RuntimeError"
                  /\ lastCall'.arg = 0
                  /\ jobs' = jobs
                  /\ queue' = queue
             ELSE /\ lastCall'.exc = None
                  /\ lastCall'.arg = Len(jobs) + 1
                  /\ queue' = Append(queue, lastCall'.arg)]_vars
    /\ [](Len(jobs) < MaxJobs => ENABLED Submit)

\* A submit after close has raised, with a job of an earlier submit still on
\* the queue.
C14_Witness ==
    /\ closed
    /\ lastCall.op = "submit"
    /\ lastCall.exc = "RuntimeError"
    /\ Len(jobs) = 1
    /\ Queued(1)

\* C15 as stated: once an endpoint is disabled, by disable() or by
\* _maybe_auto_disable, no call changes its disabled_reason, and it stays
\* disabled.
C15_DisabledReasonSetOnce ==
    [][\A e \in endpoints :
          eps[e].disabled
          => /\ eps'[e].disabled
             /\ eps'[e].disabled_reason = eps[e].disabled_reason]_vars

\* The transient failures of a request: a timeout, a 5xx status.
TransientFailures == {"APITimeoutError", "InternalServerError"}

\* C16 as stated: a transient failure never ends the thread that made the
\* request; it comes back from invoke_endpoint as ok=False, retryable=True,
\* with the endpoint's failure_streak raised.
C16_TransientFailureRetryable ==
    \A w \in DOMAIN wk :
        /\ wk[w].pc = "dead" => wk[w].exc \notin TransientFailures
        /\ wk[w].pc = "result" /\ wk[w].res.error \in TransientFailures
           => ~wk[w].res.ok /\ wk[w].res.retryable

\* C17: an invoke_endpoint that ends with a BadRequestError leaves every
\* field of every endpoint as it was and returns ok=False, retryable=False;
\* _handle_job then goes on to set the error on the job's future without
\* putting the job back on the queue; and the future it sets carries that
\* error.
C17_BadRequestNoPenalty ==
    [][\A w \in DOMAIN wk :
          /\ wk[w].pc = "next_ret" /\ wk'[w].pc = "result"
             /\ wk'[w].res.error = "BadRequestError"
             => /\ eps' = eps
                /\ ~wk'[w].res.ok
                /\ ~wk'[w].res.retryable
          /\ wk[w].pc = "result" /\ wk[w].res.error = "BadRequestError"
             /\ wk'[w] # wk[w]
             => /\ wk'[w].pc = "chk_done"
                /\ wk'[w].job = wk[w].job
                /\ wk'[w].exc = "BadRequestError"
                /\ queue' = queue
          /\ wk[w].pc = "set_future" /\ wk[w].exc = "BadRequestError"
             /\ wk'[w].pc = "loop"
             => /\ jobs'[wk[w].job].future = "exception"
                /\ jobs'[wk[w].job].err = "BadRequestError"
                /\ ~Queued(wk[w].job)]_vars

\* The job's only request was refused as a bad request: its future carries the
\* error and the endpoint is as it was constructed.
C17_Witness ==
    \E j \in DOMAIN jobs :
        /\ jobs[j].future = "exception"
        /\ jobs[j].err = "BadRequestError"
        /\ jobs[j].attempts = 1
        /\ ~Queued(j)
        /\ max_job_retry = 2
        /\ eps["e1"] = NewEndpointState(1)

\* The thread has left _worker_loop, by its return or by an exception.
Terminated(w) == wk[w].pc \in {"exited", "dead"}

\* C18: once the stop event is set every worker thread eventually
\* terminates, having taken at most one job off the queue since; and from
\* then on the queue stays as it is and no job on it has its future set.
C18_Shutdown ==
    /\ [](\A w \in DOMAIN wk : afterStop[w] <= 1)
    /\ stop ~> (\A w \in DOMAIN wk : Terminated(w))
    /\ [][stop /\ (\A w \in DOMAIN wk : Terminated(w))
          => /\ queue' = queue
             /\ \A j \in DOMAIN jobs :
                   Queued(j) => jobs'[j].future = jobs[j].future]_vars

\* Both workers have exited, one of them after a job it dequeued once the stop
\* event was set, and a pending job is left on the queue.
C18_Witness ==
    /\ \A w \in DOMAIN wk : wk[w].pc = "exited"
    /\ \E w \in DOMAIN wk : afterStop[w] = 1
    /\ \E j \in DOMAIN jobs : Queued(j) /\ jobs[j].future = "pending"

\* The thread is suspended: in queue.get on the empty queue, or in the
\* time.sleep of next().
Suspended(w) ==
    \/ wk[w].pc = "get" /\ queue = <<>>
    \/ wk[w].pc = "sleep"

\* C19 as stated: with the stop event set, a suspended thread can leave its
\* suspension at once: it has neither a job nor the end of a cooldown to
\* wait for.
C19_SuspensionsInterruptible ==
    \A w \in DOMAIN wk :
        stop /\ Suspended(w) => ENABLED (WorkerGet(w) \/ NextWake(w))

\* C20: the queue changes only by a worker taking its head or by a put at its
\* tail; the put is that of a newly submitted job or of the job a worker
\* holds after a retryable failure with budget left, whose future the put
\* leaves as it was.
C20_FifoTailRetry ==
    [][queue' # queue
       => \/ /\ queue # <<>>
             /\ queue' = Tail(queue)
             /\ \E w \in DOMAIN wk :
                   /\ wk[w].pc = "get"
                   /\ wk'[w].pc = "handle"
                   /\ wk'[w].job = Head(queue)
          \/ /\ Len(jobs') = Len(jobs) + 1
             /\ queue' = Append(queue, Len(jobs'))
          \/ \E w \in DOMAIN wk :
                /\ wk[w].pc = "result"
                /\ ~wk[w].res.ok
                /\ wk[w].res.retryable
                /\ jobs'[wk[w].job].retry_count < max_job_retry
                /\ jobs'[wk[w].job].future = jobs[wk[w].job].future
                /\ queue' = Append(queue, wk[w].job)]_vars

\* Job 1 has failed once and waits, pending, behind job 2.
C20_Witness ==
    /\ queue = <<2, 1>>
    /\ jobs[1].retry_count = 1
    /\ jobs[1].future = "pending"
    /\ jobs[2].attempts = 0

\* The places job j is in: its positions on the queue and the threads that
\* hold it.
Places(j) ==
    Cardinality({k \in DOMAIN queue : queue[k] = j})
        + Cardinality({w \in DOMAIN wk : wk[w].job = j})

\* The thread is inside invoke_endpoint for the job it holds.
Invoking(w) == wk[w].pc \in {"next_ret", "rl_set", "to_call"}

\* C21: every submitted job is in at most one place, a position of the queue
\* or the hands of one thread, so it is never twice on the queue and no two
\* threads are in invoke_endpoint for it at once.
C21_OnePlacePerJob ==
    \A j \in DOMAIN jobs :
        /\ Places(j) <= 1
        /\ \A v, w \in DOMAIN wk :
              Invoking(v) /\ Invoking(w) /\ wk[v].job = j /\ wk[w].job = j => v = w

\* A job on its second attempt is about to be sent by the thread that holds
\* it, while the other thread is at work on the other job.
C21_Witness ==
    \E w \in DOMAIN wk :
        /\ wk[w].pc = "next_ret"
        /\ wk[w].job # 0
        /\ jobs[wk[w].job].retry_count = 1
        /\ jobs[wk[w].job].attempts = 1
        /\ \E v \in DOMAIN wk \ {w} : Invoking(v) /\ wk[v].job # 0

(***************************************************************************)
(* SpecStarve: threads that call next() again and again while the          *)
(* executor's recordings put the second endpoint into cooldowns and        *)
(* disable it; nobody touches the first endpoint.                          *)
(***************************************************************************)
\* The endpoint that is left alone.
Spared == "e1"

\* What the workers' executor calls do to the other endpoints meanwhile.
StarveEnv ==
    /\ \/ \E e \in endpoints \ {Spared}, until \in 1..(MaxTime + 1) :
              /\ until > eps[e].cooldown_until
              /\ CallSetCooldown(e, until, None)
       \/ \E e \in endpoints \ {Spared} :
              /\ ~eps[e].disabled
              /\ CallDisable(e, "auth error")
    /\ ops' = ops

InitStarve ==
    /\ InitCommon
    /\ endpoints = Endpoints
    /\ eps \in {f \in [Endpoints -> UNION {Prepared(w) : w \in 0..MaxWeight}] :
                   /\ \A e \in Endpoints : f[e].weight \in Weights(e)
                   /\ f[Spared] = NewEndpointState(f[Spared].weight)}
    /\ \E r \in Rings(endpoints) : sched = [ring |-> r, idx |-> 0, lock |-> None]
    /\ wk = [w \in Workers |-> NewThread("idle")]
    /\ recording = "picks"
    /\ max_job_retry = default_max_job_retry

NextStarve ==
    \/ \E w \in DOMAIN wk : SchedulerNext(w)
    \/ \E w \in DOMAIN wk : CallNext(w)
    \/ \E w \in DOMAIN wk : CallNextReturned(w)
    \/ StarveEnv
    \/ Tick

SpecStarve == InitStarve /\ [][NextStarve]_vars

\* The endpoint has been enabled and without a cooldown all along (neither
\* is ever taken back).
StayedAvailable(e) == ~eps[e].disabled /\ eps[e].cooldown_until = 0

\* C22: an endpoint that has stayed enabled and available is among the
\* endpoints the last len(ring) calls of next() returned, whatever happened
\* to the other endpoint meanwhile and however the calls of the threads
\* interleaved.
C22_NoStarvation ==
    \A e \in endpoints :
        StayedAvailable(e) /\ Len(picks) = Len(sched.ring)
            => Count(picks, e) >= 1

\* Four consecutive calls on a ring of four: the second endpoint, with three
\* of the slots, was returned and then put into a cooldown, and the first
\* endpoint has had its turn.
C22_Witness ==
    /\ Len(sched.ring) = 4
    /\ Len(picks) = 4
    /\ picks[1] = "e2"
    /\ picks[4] = "e1"
    /\ eps["e2"].cooldown_until > clock
    /\ StayedAvailable("e1")

\* C23 as stated: no thread ever calls set_result or set_exception on a
\* future that is already resolved or cancelled (the call would raise
\* InvalidStateError and end the thread).
C23_NeverSetsDoneFuture ==
    \A w \in DOMAIN wk :
        ~(wk[w].pc = "dead" /\ wk[w].exc = "InvalidStateError")

\* C24 as stated: while the stop event is unset every worker thread is alive,
\* whatever next() and invoke_endpoint did with the jobs it has handled.
C24_WorkerPoolFixed ==
    ~stop => \A w \in DOMAIN wk : wk[w].pc \notin {"dead", "exited"}

(***************************************************************************)
(* SpecCooldown: the endpoint state machine under every sequence and       *)
(* interleaving of its methods, from an endpoint that is new or one        *)
(* timeout short of the auto-disable threshold.                            *)
(***************************************************************************)
InitCooldown ==
    /\ InitCommon
    /\ endpoints = {"e1"}
    /\ \E h \in HandedOver(1) :
           eps = [e \in Endpoints |-> IF e = "e1" THEN h ELSE NewEndpointState(1)]
    /\ sched = [ring |-> <<>>, idx |-> 0, lock |-> None]
    /\ wk = [w \in Workers |-> NewThread("idle")]
    /\ recording = "calls"
    /\ max_job_retry = default_max_job_retry

SpecCooldown == InitCooldown /\ [][NextEndpoint]_vars

\* C25: a set_cooldown(until, exc), whenever it runs, leaves disabled,
\* disabled_reason, failure_streak, weight and total_requests of the endpoint
\* as they were and sets cooldown_until to the larger of its old value and
\* `until'; without exc it changes nothing else.
C25_CooldownDoesNotPenalize ==
    [][\A e \in Endpoints :
          ops' # ops /\ lastCall'.op = "set_cooldown" /\ lastCall'.e = e
          => /\ eps'[e].disabled = eps[e].disabled
             /\ eps'[e].disabled_reason = eps[e].disabled_reason
             /\ eps'[e].failure_streak = eps[e].failure_streak
             /\ eps'[e].weight = eps[e].weight
             /\ eps'[e].total_requests = eps[e].total_requests
             /\ eps'[e].cooldown_until = Max(eps[e].cooldown_until, lastCall'.arg)
             /\ lastCall'.exc = None
                => eps'[e] = [eps[e] EXCEPT !.cooldown_until =
                                 Max(eps[e].cooldown_until, lastCall'.arg)]]_vars

\* set_cooldown has just recorded a rate limit on an endpoint whose streak is
\* at the threshold and that the fifth timeout had disabled.
C25_Witness ==
    /\ lastCall.op = "set_cooldown"
    /\ lastCall.exc = "RateLimitError"
    /\ eps[lastCall.e].failure_streak = auto_disable_threshold
    /\ eps[lastCall.e].disabled
    /\ eps[lastCall.e].disabled_reason.kind = "auto"
    /\ eps[lastCall.e].total_rate_limits = 1

(***************************************************************************)
(* SpecResolve: the dispatcher that is never closed, with callers that     *)
(* submit valid jobs and never cancel, and a client whose every answer is  *)
(* one invoke_endpoint classifies; the first endpoint is never disabled.   *)
(***************************************************************************)
\* The answers invoke_endpoint has a classification for.
Classified ==
    {"ok", "RateLimitError", "AuthenticationError", "APITimeoutError",
     "BadRequestError"}

\* What the client may answer to a request to endpoint e: on the spared
\* endpoint anything classified that does not disable it; on the other one a
\* completion, a rate limit or the authentication error that disables it.
ResolveAnswers(e) ==
    IF e = Spared
    THEN (Classified \ {"AuthenticationError"})
             \ (IF eps[e].failure_streak >= auto_disable_threshold - 1
                THEN {"APITimeoutError"} ELSE {})
    ELSE {"ok", "RateLimitError", "AuthenticationError"}

\* Any step of worker w.
ResolveWorker(w) ==
    \/ WorkerLoop(w)
    \/ WorkerGet(w)
    \/ HandleJobBegin(w)
    \/ SchedulerNext(w)
    \/ \E o \in ResolveAnswers(wk[w].ep) : Invoke(w, o, ShutdownRetryAfter)
    \/ InvokeRateLimitSet(w)
    \/ InvokeTimeoutNote(w)
    \/ HandleJobResult(w)
    \/ HandleJobCheckDone(w)
    \/ HandleJobSetFuture(w)

InitResolve ==
    /\ InitCommon
    /\ endpoints = Endpoints
    /\ eps = [e \in Endpoints |-> NewEndpointState(1)]
    /\ \E r \in Rings(endpoints) : sched = [ring |-> r, idx |-> 0, lock |-> None]
    /\ wk = [w \in Workers |-> NewThread("loop")]
    /\ recording = "none"
    /\ max_job_retry \in 1..MaxRetryCfg

NextResolve ==
    \/ Submit /\ jobs'[Len(jobs')].valid
    \/ \E w \in DOMAIN wk : ResolveWorker(w)
    \/ Tick
    \/ TickAsleep

\* The worker threads are scheduled and time passes.
SpecResolve ==
    /\ InitResolve
    /\ [][NextResolve]_vars
    /\ \A w \in Workers : WF_vars(ResolveWorker(w))
    /\ WF_vars(Tick \/ TickAsleep)

\* The job's future has been set, to a result or to an exception.
Resolved(j) == j \in DOMAIN jobs /\ jobs[j].future \in {"result", "exception"}

\* C26: under these conditions no worker thread ends, invoke_endpoint is
\* called at most max_job_retry times for a job, and every submitted job's
\* future is eventually set.
C26_EveryJobResolved ==
    /\ [](/\ \A w \in DOMAIN wk : ~Terminated(w)
          /\ \A j \in DOMAIN jobs : jobs[j].attempts <= max_job_retry)
    /\ \A j \in 1..MaxJobs : (j \in DOMAIN jobs) ~> Resolved(j)

\* Both jobs are resolved, one of them with the error of its last attempt
\* after it had used up a budget of two.
C26_Witness ==
    /\ max_job_retry = 2
    /\ Len(jobs) = 2
    /\ Resolved(1) /\ Resolved(2)
    /\ \E j \in DOMAIN jobs :
          /\ jobs[j].future = "exception"
          /\ jobs[j].attempts = 2
          /\ jobs[j].err \in {"RateLimitError", "APITimeoutError"}
    /\ \E j \in DOMAIN jobs : jobs[j].future = "result"

====
